---- MODULE Spec2Model ----
(***************************************************************************)
(* UnifyChatTarget: a chat adapter that validates a prompt request, reads  *)
(* the conversation history from the memory store, appends the new turn,   *)
(* awaits Unify's generate call and wraps the returned text in a response. *)
(*                                                                         *)
(* Spec     : construction followed by one invocation of send_prompt_async *)
(* SpecConc : a constructed adapter with two invocations that interleave   *)
(*            at the await of the external call                            *)
(***************************************************************************)
EXTENDS Integers, Sequences, FiniteSets, TLC

(* environ           : os.environ, restricted to UNIFY_API_KEY              *)
(* ctor_args         : the arguments __init__ was called with               *)
(* target            : the adapter's fields, or the error __init__ raised   *)
(* memory            : the memory store's turns per conversation identifier *)
(* store_shares_list : whether the store returns its own list object (an    *)
(*                     append by the adapter is then seen by the store) or  *)
(*                     a fresh list; the adapter's code allows both         *)
(* inv               : one send_prompt_async coroutine per caller           *)
(* calls             : the calls made to unify_client.generate, in order    *)
VARIABLES environ, ctor_args, target, memory, store_shares_list, inv, calls

vars == <<environ, ctor_args, target, memory, store_shares_list, inv, calls>>

(* ------------------------------ bounds --------------------------------- *)

MaxPieces == 2

MaxHist == 2

(* ------------------------------ values --------------------------------- *)

NoneVal == "<None>"

API_KEY_ENVIRONMENT_VARIABLE == "UNIFY_API_KEY"

DefaultModelName == "gpt-3.5-turbo"

ModelNames == {DefaultModelName, "llama-3-8b"}

ApiKeyArgs == {NoneVal, "", "arg-key"}

EnvValues == {NoneVal, "", "env-key"}

KwargChoices == {{}, {"temperature"}}

ConversationIds == {"c1", "c2"}

PromptTexts == {"p1", "p2"}

DataTypes == {"text", "image_path"}

ResponseTexts == {"X", "Y"}

ExternalFailures == {"APIError", "TimeoutError"}

Piece(conv, dtype, text) ==
    [role |-> "user", conversation_id |-> conv,
     converted_value |-> text, converted_value_data_type |-> dtype]

Pieces == {Piece(c, d, t) : c \in ConversationIds, d \in DataTypes, t \in PromptTexts}

ExtraPieces == {Piece("c1", d, "p1") : d \in DataTypes}

RECURSIVE RequestsOfLen(_)
RequestsOfLen(n) ==
    IF n = 0 THEN {<<>>}
    ELSE IF n = 1 THEN {<<p>> : p \in Pieces}
    ELSE {Append(r, q) : r \in RequestsOfLen(n - 1), q \in ExtraPieces}

Requests == UNION {RequestsOfLen(n) : n \in 0..MaxPieces}

TurnTexts ==
    [c \in ConversationIds |->
        IF c = "c1" THEN <<"c1-t1", "c1-t2", "c1-t3", "c1-t4">>
                    ELSE <<"c2-t1", "c2-t2", "c2-t3", "c2-t4">>]

StoredTurn(c, k) ==
    [role |-> IF k % 2 = 1 THEN "user" ELSE "assistant", content |-> TurnTexts[c][k]]

StoredHistory(c, n) == [k \in 1..n |-> StoredTurn(c, k)]

Truthy(v) == v # NoneVal /\ v # ""

(* ------------------------- host framework ------------------------------ *)

get_required_value(env_value, passed_value) ==
    IF Truthy(passed_value) THEN [ok |-> TRUE, value |-> passed_value]
    ELSE IF Truthy(env_value) THEN [ok |-> TRUE, value |-> env_value]
    ELSE [ok |-> FALSE, value |-> NoneVal]

to_chat_message(piece) ==
    [role |-> piece.role, content |-> piece.converted_value]

get_chat_messages_with_conversation_id(mem, conversation_id) ==
    mem[conversation_id]

construct_response_from_request(request, response_text_pieces) ==
    [request_pieces |->
        [k \in 1..Len(response_text_pieces) |->
            [role |-> "assistant",
             conversation_id |-> request.conversation_id,
             original_value |-> response_text_pieces[k],
             converted_value |-> response_text_pieces[k],
             converted_value_data_type |-> "text"]],
     request |-> request]

(* ------------------------- UnifyChatTarget ------------------------------ *)

NoTarget ==
    [state |-> "absent", api_key |-> NoneVal, model_name |-> NoneVal,
     unify_client |-> [created |-> FALSE, api_key |-> NoneVal]]

ResolveApiKeyOptional(api_key, env) ==
    IF Truthy(api_key) THEN [ok |-> TRUE, value |-> api_key]
    ELSE [ok |-> TRUE, value |-> env[API_KEY_ENVIRONMENT_VARIABLE]]

ResolveApiKey(api_key, env) ==
    IF Truthy(api_key) THEN [ok |-> TRUE, value |-> api_key]
    ELSE get_required_value(env[API_KEY_ENVIRONMENT_VARIABLE], api_key)

NewTarget(api_key, model_name, kwargs, env) ==
    LET key == ResolveApiKey(api_key, env) IN
    IF ~key.ok
    THEN [NoTarget EXCEPT !.state = "ValueError"]
    ELSE [state |-> "constructed", api_key |-> key.value, model_name |-> model_name,
          unify_client |-> [created |-> TRUE, api_key |-> key.value]]

validate_request_only_empty(prompt_request) ==
    IF Len(prompt_request) = 0
    THEN [ok |-> FALSE, error |-> "ValueError: single prompt request piece"]
    ELSE IF prompt_request[1].converted_value_data_type # "text"
    THEN [ok |-> FALSE, error |-> "ValueError: text prompt input"]
    ELSE [ok |-> TRUE, error |-> NoneVal]

validate_request_any_type(prompt_request) ==
    IF Len(prompt_request) # 1
    THEN [ok |-> FALSE, error |-> "ValueError: single prompt request piece"]
    ELSE [ok |-> TRUE, error |-> NoneVal]

validate_request(prompt_request) ==
    IF Len(prompt_request) # 1
    THEN [ok |-> FALSE, error |-> "ValueError: single prompt request piece"]
    ELSE IF prompt_request[1].converted_value_data_type # "text"
    THEN [ok |-> FALSE, error |-> "ValueError: text prompt input"]
    ELSE [ok |-> TRUE, error |-> NoneVal]

BuildMessagesPrepend(history, request) == <<to_chat_message(request)>> \o history

BuildMessages(history, request) == Append(history, to_chat_message(request))

GenerateArgs(self, messages) ==
    [model |-> self.model_name, messages |-> messages, kwargs |-> {}]

ReturnValueEcho(request, resp_text) ==
    construct_response_from_request(request, <<request.converted_value>>)

ReturnValue(request, resp_text) ==
    construct_response_from_request(request, <<resp_text>>)

Idle == [pc |-> "idle", request |-> <<>>, reads |-> 0,
         result |-> [kind |-> "none"]]

Pending == [kind |-> "pending"]

Construct(api_key, model_name, kwargs) ==
    /\ target.state = "absent"
    /\ ctor_args' = [called |-> TRUE, api_key |-> api_key,
                     model_name |-> model_name, kwargs |-> kwargs]
    /\ target' = NewTarget(api_key, model_name, kwargs, environ)
    /\ UNCHANGED <<environ, memory, store_shares_list, inv, calls>>

SendPromptValidateLate(i, prompt_request) ==
    /\ target.state = "constructed"
    /\ inv[i].pc = "idle"
    /\ IF Len(prompt_request) = 0
       THEN /\ inv' = [inv EXCEPT ![i] =
                        [pc |-> "raised", request |-> prompt_request, reads |-> 0,
                         result |-> [kind |-> "raise", error |-> "IndexError"]]]
            /\ UNCHANGED <<memory, calls>>
       ELSE LET request == prompt_request[1]
                history == get_chat_messages_with_conversation_id(
                               memory, request.conversation_id)
                messages == BuildMessages(history, request)
                v == validate_request(prompt_request)
            IN /\ memory' = IF store_shares_list
                            THEN [memory EXCEPT ![request.conversation_id] = messages]
                            ELSE memory
               /\ IF ~v.ok
                  THEN /\ inv' = [inv EXCEPT ![i] =
                                   [pc |-> "raised", request |-> prompt_request,
                                    reads |-> 1,
                                    result |-> [kind |-> "raise", error |-> v.error]]]
                       /\ UNCHANGED calls
                  ELSE /\ calls' = Append(calls,
                                       [caller |-> i, outcome |-> Pending,
                                        args |-> GenerateArgs(target, messages)])
                       /\ inv' = [inv EXCEPT ![i] =
                                   [pc |-> "awaiting", request |-> prompt_request,
                                    reads |-> 1, result |-> [kind |-> "none"]]]
    /\ UNCHANGED <<environ, ctor_args, target, store_shares_list>>

SendPrompt(i, prompt_request) ==
    /\ target.state = "constructed"
    /\ inv[i].pc = "idle"
    /\ LET v == validate_request(prompt_request) IN
       IF ~v.ok
       THEN /\ inv' = [inv EXCEPT ![i] =
                        [pc |-> "raised", request |-> prompt_request, reads |-> 0,
                         result |-> [kind |-> "raise", error |-> v.error]]]
            /\ UNCHANGED <<memory, calls>>
       ELSE LET request == prompt_request[1]
                history == get_chat_messages_with_conversation_id(
                               memory, request.conversation_id)
                messages == BuildMessages(history, request)
            IN /\ memory' = IF store_shares_list
                            THEN [memory EXCEPT ![request.conversation_id] = messages]
                            ELSE memory
               /\ calls' = Append(calls,
                               [caller |-> i, outcome |-> Pending,
                                args |-> GenerateArgs(target, messages)])
               /\ inv' = [inv EXCEPT ![i] =
                            [pc |-> "awaiting", request |-> prompt_request,
                             reads |-> 1, result |-> [kind |-> "none"]]]
    /\ UNCHANGED <<environ, ctor_args, target, store_shares_list>>

CallOf(i) == CHOOSE k \in 1..Len(calls) : calls[k].caller = i /\ calls[k].outcome = Pending

GenerateReturnSharedRequest(i, resp_text) ==
    /\ inv[i].pc = "awaiting"
    /\ calls' = [calls EXCEPT ![CallOf(i)].outcome = [kind |-> "text", text |-> resp_text]]
    /\ inv' = [inv EXCEPT ![i].pc = "returned",
                          ![i].result =
                              [kind |-> "response",
                               value |-> ReturnValue(
                                   inv[calls[Len(calls)].caller].request[1], resp_text)]]
    /\ UNCHANGED <<environ, ctor_args, target, memory, store_shares_list>>

GenerateReturnRecordsReply(i, resp_text) ==
    /\ inv[i].pc = "awaiting"
    /\ calls' = [calls EXCEPT ![CallOf(i)].outcome = [kind |-> "text", text |-> resp_text]]
    /\ inv' = [inv EXCEPT ![i].pc = "returned",
                          ![i].result = [kind |-> "response",
                                         value |-> ReturnValue(inv[i].request[1], resp_text)]]
    /\ memory' = [memory EXCEPT ![inv[i].request[1].conversation_id] =
                      Append(@, [role |-> "assistant", content |-> resp_text])]
    /\ UNCHANGED <<environ, ctor_args, target, store_shares_list>>

GenerateReturn(i, resp_text) ==
    /\ inv[i].pc = "awaiting"
    /\ calls' = [calls EXCEPT ![CallOf(i)].outcome = [kind |-> "text", text |-> resp_text]]
    /\ inv' = [inv EXCEPT ![i].pc = "returned",
                          ![i].result = [kind |-> "response",
                                         value |-> ReturnValue(inv[i].request[1], resp_text)]]
    /\ UNCHANGED <<environ, ctor_args, target, memory, store_shares_list>>

GenerateRaiseWrapped(i, failure) ==
    /\ inv[i].pc = "awaiting"
    /\ calls' = [calls EXCEPT ![CallOf(i)].outcome = [kind |-> "raise", error |-> failure]]
    /\ inv' = [inv EXCEPT ![i].pc = "raised",
                          ![i].result = [kind |-> "raise", error |-> "RuntimeError"]]
    /\ UNCHANGED <<environ, ctor_args, target, memory, store_shares_list>>

GenerateRaise(i, failure) ==
    /\ inv[i].pc = "awaiting"
    /\ calls' = [calls EXCEPT ![CallOf(i)].outcome = [kind |-> "raise", error |-> failure]]
    /\ inv' = [inv EXCEPT ![i].pc = "raised",
                          ![i].result = [kind |-> "raise", error |-> failure]]
    /\ UNCHANGED <<environ, ctor_args, target, memory, store_shares_list>>

Histories == [ConversationIds -> 0..MaxHist]

Init ==
    /\ environ \in [{API_KEY_ENVIRONMENT_VARIABLE} -> EnvValues]
    /\ ctor_args = [called |-> FALSE, api_key |-> NoneVal,
                    model_name |-> NoneVal, kwargs |-> {}]
    /\ target = NoTarget
    /\ \E h \in Histories : memory = [c \in ConversationIds |-> StoredHistory(c, h[c])]
    /\ store_shares_list \in BOOLEAN
    /\ inv = [i \in {1} |-> Idle]
    /\ calls = <<>>

InitConc ==
    /\ environ \in [{API_KEY_ENVIRONMENT_VARIABLE} -> EnvValues]
    /\ \E m \in ModelNames :
         /\ ctor_args = [called |-> TRUE, api_key |-> "arg-key",
                         model_name |-> m, kwargs |-> {}]
         /\ target = NewTarget("arg-key", m, {}, environ)
    /\ \E h \in Histories : memory = [c \in ConversationIds |-> StoredHistory(c, h[c])]
    /\ store_shares_list \in BOOLEAN
    /\ inv = [i \in {1, 2} |-> Idle]
    /\ calls = <<>>

Callers == DOMAIN inv

Sends ==
    \/ \E i \in Callers, r \in Requests : SendPrompt(i, r)
    \/ \E i \in Callers, x \in ResponseTexts : GenerateReturn(i, x)
    \/ \E i \in Callers, e \in ExternalFailures : GenerateRaise(i, e)

Next ==
    \/ \E k \in ApiKeyArgs, m \in ModelNames, kw \in KwargChoices : Construct(k, m, kw)
    \/ Sends

Spec == Init /\ [][Next]_vars

SpecConc == InitConc /\ [][Sends]_vars

(* ------------------------------ properties ----------------------------- *)

ValueErrors == {"ValueError: single prompt request piece", "ValueError: text prompt input"}

Started(i) == inv[i].pc # "idle"

CallsBy(i) == {k \in 1..Len(calls) : calls[k].caller = i}

RaisedValueError(i) ==
    /\ inv[i].pc = "raised"
    /\ inv[i].result.kind = "raise"
    /\ inv[i].result.error \in ValueErrors

(* C1: send_prompt_async on a request whose number of pieces is not exactly *)
(* one (zero, two or more) raises ValueError and returns no response.       *)
C1_PieceCountRejected ==
    \A i \in Callers :
        (Started(i) /\ Len(inv[i].request) # 1) => RaisedValueError(i)

C1_Witness ==
    \E i \in Callers : Len(inv[i].request) = 2 /\ RaisedValueError(i)

(* C2: send_prompt_async on a request with exactly one piece whose data     *)
(* type is not text raises ValueError and returns no response.              *)
C2_NonTextRejected ==
    \A i \in Callers :
        (/\ Started(i)
         /\ Len(inv[i].request) = 1
         /\ inv[i].request[1].converted_value_data_type # "text")
        => RaisedValueError(i)

C2_Witness ==
    \E i \in Callers :
        /\ Len(inv[i].request) = 1
        /\ inv[i].request[1].converted_value_data_type = "image_path"
        /\ RaisedValueError(i)

(* C3: constructing with no explicit credential while UNIFY_API_KEY is      *)
(* unset fails with a configuration error and creates no client;            *)
(* construction succeeds, with a client holding the credential, whenever a  *)
(* credential is available from the argument or the environment.            *)
C3_CredentialRequired ==
    ctor_args.called =>
        LET envv == environ[API_KEY_ENVIRONMENT_VARIABLE] IN
        /\ (ctor_args.api_key = NoneVal /\ envv = NoneVal)
              => (target.state = "ValueError" /\ ~target.unify_client.created)
        /\ (Truthy(ctor_args.api_key) \/ Truthy(envv))
              => /\ target.state = "constructed"
                 /\ target.unify_client.created
                 /\ target.api_key \in {ctor_args.api_key, envv}
                 /\ Truthy(target.api_key)

C3_Witness ==
    /\ ctor_args.called
    /\ ctor_args.api_key = NoneVal
    /\ environ[API_KEY_ENVIRONMENT_VARIABLE] = NoneVal
    /\ target.state = "ValueError"

(* C4: for a valid request and any text X returned by the external call,    *)
(* send_prompt_async returns a response wrapping exactly X against the      *)
(* submitted request piece and its conversation identifier.                 *)
C4_ResponseWrapsText ==
    \A i \in Callers :
        inv[i].pc = "returned" =>
            /\ inv[i].result.kind = "response"
            /\ inv[i].result.value.request = inv[i].request[1]
            /\ Len(inv[i].result.value.request_pieces) = 1
            /\ \A k \in CallsBy(i) :
                 /\ calls[k].outcome.kind = "text"
                 /\ inv[i].result.value.request_pieces[1].converted_value
                        = calls[k].outcome.text
            /\ inv[i].result.value.request_pieces[1].conversation_id
                   = inv[i].request[1].conversation_id

C4_Witness ==
    \E i \in Callers :
        /\ inv[i].pc = "returned"
        /\ CallsBy(i) # {}
        /\ inv[i].result.value.request_pieces[1].converted_value = "X"

(* C5: the external call is invoked with the model identifier configured at *)
(* construction and with the stored history of the piece's conversation     *)
(* identifier, in its stored order, followed by the new message as the last *)
(* element.                                                                 *)
C5_CallCarriesHistory ==
    [][\A i \in Callers :
          (inv[i].pc = "idle" /\ inv'[i].pc = "awaiting") =>
              LET piece == inv'[i].request[1] IN
              /\ Len(calls') = Len(calls) + 1
              /\ calls'[Len(calls')].caller = i
              /\ calls'[Len(calls')].args.model = ctor_args.model_name
              /\ calls'[Len(calls')].args.messages
                     = memory[piece.conversation_id]
                         \o <<[role |-> piece.role, content |-> piece.converted_value]>>
      ]_vars

C5_Witness ==
    \E k \in 1..Len(calls) :
        /\ Len(calls[k].args.messages) = MaxHist + 1
        /\ calls[k].args.model # DefaultModelName

(* C6: when the external call fails, send_prompt_async raises that same     *)
(* failure, returns no response, and every invocation makes at most one     *)
(* external call.                                                           *)
C6_FailurePropagates ==
    \A i \in Callers :
        /\ Cardinality(CallsBy(i)) <= 1
        /\ \A k \in CallsBy(i) :
              calls[k].outcome.kind = "raise" =>
                  /\ inv[i].pc = "raised"
                  /\ inv[i].result.kind = "raise"
                  /\ inv[i].result.error = calls[k].outcome.error

C6_Witness ==
    \E i \in Callers : \E k \in CallsBy(i) :
        /\ calls[k].outcome.kind = "raise"
        /\ inv[i].result.error = "TimeoutError"

(* C7: every external call made by send_prompt_async carries the additional *)
(* keyword parameters the adapter was constructed with.                     *)
C7_KwargsForwarded ==
    \A k \in 1..Len(calls) : calls[k].args.kwargs = ctor_args.kwargs

(* C8: under every interleaving of two invocations suspended at the         *)
(* external call, each sends a message list ending in its own new message   *)
(* and returns the text of its own call wrapped against its own piece, and  *)
(* send_prompt_async never changes the credential, model or client.         *)
C8_Isolated ==
    \A i \in Callers :
        /\ \A k \in CallsBy(i) :
              LET msgs == calls[k].args.messages IN
              /\ Len(msgs) >= 1
              /\ msgs[Len(msgs)] = [role |-> inv[i].request[1].role,
                                    content |-> inv[i].request[1].converted_value]
              /\ inv[i].pc = "returned" =>
                    inv[i].result.value.request_pieces[1].converted_value
                        = calls[k].outcome.text
        /\ inv[i].pc = "returned" => inv[i].result.value.request = inv[i].request[1]

C8_ConcurrentSendsIsolated == []C8_Isolated /\ [][target' = target]_vars

C8_Witness ==
    /\ Cardinality(Callers) = 2
    /\ inv[1].pc = "returned"
    /\ inv[2].pc = "awaiting"
    /\ Len(calls) = 2
    /\ calls[1].caller = 2
    /\ inv[1].request[1].conversation_id = inv[2].request[1].conversation_id
    /\ inv[1].request[1].converted_value # inv[2].request[1].converted_value

(* C9: the memory store is read and the external call is invoked only for a *)
(* request with exactly one piece of data type text; a request that fails   *)
(* validation causes no memory read, no history append and no call.         *)
ValidRequest(r) == Len(r) = 1 /\ r[1].converted_value_data_type = "text"

C9_Effects ==
    \A i \in Callers :
        (inv[i].reads > 0 \/ CallsBy(i) # {}) => ValidRequest(inv[i].request)

C9_ValidationFirst ==
    /\ []C9_Effects
    /\ [][\A i \in Callers :
            (inv[i].pc = "idle" /\ inv'[i].pc # "idle" /\ ~ValidRequest(inv'[i].request))
                => (memory' = memory /\ calls' = calls /\ inv'[i].reads = 0)
         ]_vars

C9_Witness ==
    \E i \in Callers :
        /\ inv[i].pc = "raised"
        /\ ~ValidRequest(inv[i].request)
        /\ Len(inv[i].request) >= 1
        /\ store_shares_list

(* C10: the only change the adapter makes to a conversation's message       *)
(* sequence is appending the new request turn at its end, in the step that  *)
(* invokes the external call with that turn already in the list; it never   *)
(* removes, rewrites or reorders turns nor adds the response text.          *)
C10_HistoryAppendOnly ==
    [][\A c \in ConversationIds :
          \/ memory'[c] = memory[c]
          \/ \E i \in Callers :
               /\ inv[i].pc = "idle" /\ inv'[i].pc = "awaiting"
               /\ inv'[i].request[1].conversation_id = c
               /\ memory'[c] = Append(memory[c],
                                  [role |-> inv'[i].request[1].role,
                                   content |-> inv'[i].request[1].converted_value])
               /\ calls'[Len(calls')].args.messages = memory'[c]
               /\ calls'[Len(calls')].outcome = Pending
      ]_vars

C10_Witness ==
    /\ store_shares_list
    /\ \A i \in Callers : inv[i].pc = "returned"
    /\ \E c \in ConversationIds :
          /\ Len(memory[c]) = MaxHist + Cardinality(Callers)
          /\ memory[c][Len(memory[c])].content \in PromptTexts

====
